---------------------------- MODULE Spec2Model ----------------------------
(***************************************************************************)
(* Model of the onboard controller of the remotely operated vehicle        *)
(* (index.js, "for running on the robot").  The later revision of the file *)
(* (src/unnamed/part_000, keyed DOF values, electromagnet) is the one      *)
(* modelled; src/index.js is the earlier revision of the same file and     *)
(* shares calcMotorValues, echo and the stream handlers verbatim.          *)
(*                                                                         *)
(* Numbers are exact rationals <<n, d>> (d > 0, lowest terms); the         *)
(* JavaScript value undefined/null/NaN of a number is Undef.               *)
(***************************************************************************)
EXTENDS Integers, Sequences, FiniteSets, TLC

(***************************************************************************)
(* Bounds of the model                                                     *)
(***************************************************************************)
\* DOF values of the mixing specification are the multiples of 1/ValDen in [-1, 1]
ValDen == 2
\* mixing matrices of the mixing specification have at most MaxRows rows
MaxRows == 2
\* live interval timers (setInterval handles not yet cleared)
MaxTimers == 2
\* handlers suspended at an await at the same time
MaxPending == 2

(***************************************************************************)
(* Rational arithmetic (JavaScript numbers, modelled exactly)              *)
(***************************************************************************)
Abs(x) == IF x < 0 THEN -x ELSE x

RECURSIVE Gcd(_, _)
Gcd(a, b) == IF b = 0 THEN a ELSE Gcd(b, a % b)

Rat(n, d) ==
    LET s == IF d < 0 THEN -1 ELSE 1
        g == Gcd(Abs(n), Abs(d))
    IN  <<(s * n) \div g, (s * d) \div g>>

R(n) == <<n, 1>>
Undef == <<0, 0>>
IsNum(x) == x[2] > 0

RAdd(x, y) == Rat(x[1] * y[2] + y[1] * x[2], x[2] * y[2])
RSub(x, y) == Rat(x[1] * y[2] - y[1] * x[2], x[2] * y[2])
RMul(x, y) == Rat(x[1] * y[1], x[2] * y[2])
RDiv(x, y) == Rat(x[1] * y[2], x[2] * y[1])
RNeg(x) == <<-x[1], x[2]>>
RAbs(x) == <<Abs(x[1]), x[2]>>
RLe(x, y) == x[1] * y[2] <= y[1] * x[2]
RLt(x, y) == x[1] * y[2] < y[1] * x[2]
RMin(x, y) == IF RLt(y, x) THEN y ELSE x
RMax(x, y) == IF RLt(x, y) THEN y ELSE x

(***************************************************************************)
(* Global constants of index.js                                            *)
(***************************************************************************)
DefaultDiff == 400
DefaultMid == 1550
LevelerDiff == 500
PressureScale == 30

\* motorChannels: PWM channel of each motor position
motorChannels ==
    [LF |-> 8, RF |-> 1, LB |-> 9, RB |-> 2, F |-> 3, B |-> 11,
     manip |-> 0, picam |-> 10, leveler |-> 7]

motorChannelGroups ==
    [vector |-> <<motorChannels.LF, motorChannels.RF, motorChannels.LB, motorChannels.RB>>,
     depth  |-> <<motorChannels.F, motorChannels.B>>]

Channels == {motorChannels[k] : k \in DOMAIN motorChannels}

\* rows: LF, RF, LB, RB; columns: F/B, turn, strafe
vectorMapMatrix ==
    << <<1, 1, 1>>, <<1, -1, -1>>, <<1, 1, -1>>, <<1, -1, 1>> >>

\* rows: F, B; columns: pitch, depth
depthMapMatrix ==
    << <<1, -1>>, <<-1, -1>> >>

(***************************************************************************)
(* calcMotorValues: the actuator mixing function                           *)
(***************************************************************************)
\* row.reduce((sum, dir, index) => sum + dir * data[index], 0)
RECURSIVE RowSum(_, _, _)
RowSum(row, data, n) ==
    IF n = 0 THEN R(0)
    ELSE RAdd(RowSum(row, data, n - 1), RMul(R(row[n]), data[n]))

\* matrix.map(row => row.reduce(...))
RawValues(data, matrix) ==
    [i \in 1..Len(matrix) |-> RowSum(matrix[i], data, Len(matrix[i]))]

\* mutant: no normalisation, the divisor is always 1
MaxAbsOne(raw, n) == R(1)

RECURSIVE MaxAbsSigned(_, _)
\* mutant: the maximum of the raw values taken without Math.abs
MaxAbsSigned(raw, n) ==
    IF n = 0 THEN R(1)
    ELSE LET accum == MaxAbsSigned(raw, n - 1)
         IN  IF RLt(accum, raw[n]) THEN raw[n] ELSE accum

\* rawValues.reduce((accum, val) => Math.abs(val) > accum ? Math.abs(val) : accum, 1)
RECURSIVE MaxAbs(_, _)
MaxAbs(raw, n) ==
    IF n = 0 THEN R(1)
    ELSE LET accum == MaxAbs(raw, n - 1)
         IN  IF RLt(accum, RAbs(raw[n])) THEN RAbs(raw[n]) ELSE accum

\* element / max * diff + mid, for every element of rawValues
calcMotorValues(data, matrix, diff, mid) ==
    LET rawValues == RawValues(data, matrix)
        max == MaxAbs(rawValues, Len(rawValues))
    IN  [i \in 1..Len(rawValues) |->
            RAdd(RMul(RDiv(rawValues[i], max), R(diff)), R(mid))]

\* calcMotorValue(data, diff = 400, mid = 1550): the wrapper passes neither diff
\* nor mid on, so calcMotorValues runs with its own defaults; the one-element
\* array [data] is coerced back to the number data by the multiplication.
calcMotorValue(data, diff, mid) ==
    calcMotorValues(<<data>>, << <<1>> >>, DefaultDiff, DefaultMid)[1]


(***************************************************************************)
(* Protocol values (nugget-comms) and token shapes                         *)
(***************************************************************************)
\* responseTypes: the fixed transactionIDs of unsolicited telemetry
MAGDATA == "MAGDATA"
PITEMPDATA == "PITEMPDATA"
MOTORDATA == "MOTORDATA"
TelemetryIDs == {MAGDATA, PITEMPDATA, MOTORDATA}

\* keys of the intervals object
StreamNames == {"mag", "piTemp", "depthLock"}

DOFKeys == {"FB", "turn", "strafe", "pitch", "depth", "manip", "leveler", "picam"}
GainKeys == {"zKp", "zKi", "zKd"}

EmptyMap == [k \in {} |-> Undef]

\* A JSON value: k is its kind, the field of that kind holds it.
StrBody(s) == [k |-> "str", s |-> s, b |-> FALSE, n |-> Undef, obj |-> EmptyMap]
BoolBody(b) == [k |-> "bool", s |-> <<>>, b |-> b, n |-> Undef, obj |-> EmptyMap]
NumBody(n) == [k |-> "num", s |-> <<>>, b |-> FALSE, n |-> n, obj |-> EmptyMap]
ObjBody(f) == [k |-> "obj", s |-> <<>>, b |-> FALSE, n |-> Undef, obj |-> f]
NoBody == [k |-> "undefined", s |-> <<>>, b |-> FALSE, n |-> Undef, obj |-> EmptyMap]

\* JavaScript truthiness of a body (the test !data.body)
Truthy(body) ==
    CASE body.k = "str" -> body.s # <<>>
      [] body.k = "bool" -> body.b
      [] body.k = "num" -> IsNum(body.n) /\ body.n # R(0)
      [] body.k = "obj" -> TRUE
      [] OTHER -> FALSE

\* A token as parsed from the wire: {type, headers: {transactionID, specialType}, body}
\* and the set of gain names present as keys of the token object itself.
Token(type, tx, special, top, body) ==
    [type |-> type, tx |-> tx, special |-> special, top |-> top, body |-> body]

\* the fake token a stream timer passes to its handler
FakeToken(tx) == Token("", tx, "", {}, NoBody)

\* new responseToken(body, transactionID)
responseToken(body, transactionID) == [transactionID |-> transactionID, body |-> body]

(***************************************************************************)
(* State                                                                   *)
(***************************************************************************)
VARIABLES
    debug,            \* args.debug
    crashed,          \* the process has exited on an uncaught error
    client,           \* _client: 0 (undefined or null) or the stored connection
    conns,            \* open connections (their data/close listeners are attached)
    intervals,        \* intervals[name]: 0 (undefined) or a timer handle
    timers,           \* timers[h]: the callback and argument of live interval timer h
    depthLockToggle,  \* FALSE also stands for the initial undefined
    targetPressure,
    oldDOFValues,
    gains,            \* zKp, zKi, zKd
    pwm,              \* pulse length last written to each PWM channel
    pending,          \* handlers suspended at an await, in suspension order
    act,              \* the event handled by the last step and its inputs
    handled,          \* handlers invoked during the last step, in order
    sent,             \* responses written to the socket during the last step
    hw,               \* hardware writes attempted during the last step
    err,              \* "none", or how an error escaped during the last step
    mixIn,            \* mixing specification: the arguments of calcMotorValues
    mixOut            \* mixing specification: its result

progVars ==
    <<debug, crashed, client, conns, intervals, timers, depthLockToggle,
      targetPressure, oldDOFValues, gains, pwm, pending>>
stepVars == <<act, handled, sent, hw, err>>
mixVars == <<mixIn, mixOut>>
vars == <<progVars, stepVars, mixVars>>

\* The program state as one value, threaded through the handlers of a step.
Cur ==
    [debug |-> debug, crashed |-> crashed, client |-> client, conns |-> conns,
     intervals |-> intervals, timers |-> timers,
     depthLockToggle |-> depthLockToggle, targetPressure |-> targetPressure,
     oldDOFValues |-> oldDOFValues, gains |-> gains, pwm |-> pwm,
     pending |-> pending,
     handled |-> <<>>, sent |-> <<>>, hw |-> <<>>, err |-> "none",
     thrown |-> FALSE, blocked |-> FALSE,
     origin |-> [periodic |-> FALSE, cause |-> ""]]

\* Commit the state a step ends in.  A step that needs more timers or pending
\* handlers than the bounds allow (blocked) is not taken.
Install(st, a) ==
    /\ ~st.blocked
    /\ debug' = st.debug
    /\ crashed' = st.crashed
    /\ client' = st.client
    /\ conns' = st.conns
    /\ intervals' = st.intervals
    /\ timers' = st.timers
    /\ depthLockToggle' = st.depthLockToggle
    /\ targetPressure' = st.targetPressure
    /\ oldDOFValues' = st.oldDOFValues
    /\ gains' = st.gains
    /\ pwm' = st.pwm
    /\ pending' = st.pending
    /\ act' = a
    /\ handled' = st.handled
    /\ sent' = st.sent
    /\ hw' = st.hw
    /\ err' = st.err

(***************************************************************************)
(* Errors.  A JavaScript exception raised inside a handler sets thrown;    *)
(* the statements after the throwing one do not run.  An exception that    *)
(* leaves an async function rejects its promise, which nobody handles; one *)
(* that leaves a synchronous listener or timer callback is uncaught.       *)
(***************************************************************************)
Throw(st) == [st EXCEPT !.thrown = TRUE]

\* the end of an async function's run: its exception becomes a rejection
Async(st) ==
    IF st.thrown THEN [st EXCEPT !.thrown = FALSE, !.err = IF @ = "throw" THEN @ ELSE "reject"]
    ELSE st

\* the end of a synchronous listener or callback called by the event loop
Sync(st) ==
    IF st.thrown THEN [st EXCEPT !.thrown = FALSE, !.err = "throw"] ELSE st

Invoke(st, name, data) ==
    [st EXCEPT !.handled = Append(@, [h |-> name, tx |-> data.tx])]

(***************************************************************************)
(* sendToken and the timers                                                *)
(***************************************************************************)
\* _client.write(token.stringify()): a TypeError when _client is undefined or null
sendToken(st, token) ==
    IF st.client = 0 THEN Throw(st)
    ELSE [st EXCEPT !.sent = Append(@,
            [to |-> st.client, transactionID |-> token.transactionID,
             body |-> token.body, periodic |-> st.origin.periodic,
             cause |-> st.origin.cause])]

Handles == 1..MaxTimers
FreeTimer == [cb |-> "free", tx |-> ""]
Live(st, h) == st.timers[h].cb # "free"

\* clearInterval(h): a no-op for undefined and for a handle already cleared
clearInterval(st, h) ==
    IF h \in Handles /\ Live(st, h)
    THEN [st EXCEPT !.timers[h] = FreeTimer]
    ELSE st

\* handles setInterval may return: not live, and not still referenced under
\* another name
FreshHandles(st, name) ==
    {h \in Handles : /\ ~Live(st, h)
                     /\ \A n \in StreamNames \ {name} : st.intervals[n] # h}

Least(S) == CHOOSE x \in S : \A y \in S : x <= y

\* intervals[name] = setInterval(cb, period, {headers: {transactionID: tx}})
setInterval(st, name, cb, tx) ==
    IF FreshHandles(st, name) = {} THEN [st EXCEPT !.blocked = TRUE]
    ELSE LET h == Least(FreshHandles(st, name))
         IN  [st EXCEPT !.timers[h] = [cb |-> cb, tx |-> tx], !.intervals[name] = h]

\* an async function reaches an await: it is suspended until the awaited
\* operation settles
Suspend(st, k) ==
    IF Len(st.pending) >= MaxPending THEN [st EXCEPT !.blocked = TRUE]
    ELSE [st EXCEPT !.pending = Append(@, k)]

Cont(kind, tx, tp, origin) == [kind |-> kind, tx |-> tx, tp |-> tp, origin |-> origin]

(***************************************************************************)
(* Handlers                                                                *)
(***************************************************************************)
\* mutant: the response carries no body
echoNoBody(st, data) ==
    sendToken(st, responseToken(NoBody, data.tx))

echo(st, data) ==
    sendToken(st, responseToken(data.body, data.tx))

\* Math.random() * 2 * Math.PI - Math.PI for each angle: one representative
MagReading == ObjBody([k \in {"heading", "pitch", "roll"} |-> R(0)])

readMag(st, data) ==
    IF st.debug THEN sendToken(st, responseToken(MagReading, data.tx))
    ELSE st

\* mutant: the stream timer is given the command's own transactionID
startMagStreamOwnId(st, data) ==
    LET s1 == clearInterval(st, st.intervals["mag"])
    IN  IF data.body.k = "undefined" THEN Throw(s1)
        ELSE sendToken(setInterval(s1, "mag", "readMag", data.tx),
                       responseToken(ObjBody(EmptyMap), data.tx))

\* data.body.interval: a TypeError when the token has no body
startMagStream(st, data) ==
    LET s1 == clearInterval(st, st.intervals["mag"])
    IN  IF data.body.k = "undefined" THEN Throw(s1)
        ELSE sendToken(setInterval(s1, "mag", "readMag", MAGDATA),
                       responseToken(ObjBody(EmptyMap), data.tx))

stopMagStream(st, data) ==
    sendToken(clearInterval(st, st.intervals["mag"]),
              responseToken(ObjBody(EmptyMap), data.tx))

\* setChannel(channel, value): returns value; the write is skipped in debug mode
\* and its exception (a channel in faults) is caught here
setChannel(st, channel, value, faults) ==
    IF st.debug THEN st
    ELSE IF channel \in faults
         THEN [st EXCEPT !.hw = Append(@, [ch |-> channel, val |-> value, ok |-> FALSE])]
         ELSE [st EXCEPT !.hw = Append(@, [ch |-> channel, val |-> value, ok |-> TRUE]),
                         !.pwm[channel] = value]

Has(obj, key) == key \in DOMAIN obj
\* mutant: the retained value is used even when the update carries the key
PickOld(obj, old, key) == old[key]

Pick(obj, old, key) == IF Has(obj, key) THEN obj[key] ELSE old[key]

RECURSIVE SetGroup(_, _, _, _, _, _)
\* values.map((value, index) => setChannel(group[index], value)), skipping the indices in skip
SetGroup(st, group, values, skip, faults, n) ==
    IF n = 0 THEN st
    ELSE LET s1 == SetGroup(st, group, values, skip, faults, n - 1)
         IN  IF n \in skip THEN s1 ELSE setChannel(s1, group[n], values[n], faults)

\* mutant: the keys an update omits are reset to neutral
AssignReset(old, new) ==
    [k \in DOMAIN old \cup DOMAIN new |-> IF k \in DOMAIN new THEN new[k] ELSE R(0)]

\* Object.assign(oldDOFValues, DOFValues)
Assign(old, new) ==
    [k \in DOMAIN old \cup DOMAIN new |-> IF k \in DOMAIN new THEN new[k] ELSE old[k]]

setMotors(st, data, fromController, faults) ==
    LET DOFValues == data.body.obj
        old == st.oldDOFValues
        doVector == Has(DOFValues, "FB") \/ Has(DOFValues, "turn") \/ Has(DOFValues, "strafe")
        vectorVals == calcMotorValues(
            <<Pick(DOFValues, old, "FB"), Pick(DOFValues, old, "turn"),
              Pick(DOFValues, old, "strafe")>>, vectorMapMatrix, DefaultDiff, DefaultMid)
        s1 == IF doVector
              THEN SetGroup(st, motorChannelGroups.vector, vectorVals, {}, faults, 4)
              ELSE st
        doDepth == Has(DOFValues, "pitch")
                   \/ (Has(DOFValues, "depth") /\ ~st.depthLockToggle /\ fromController)
        depthVals == calcMotorValues(
            <<Pick(DOFValues, old, "pitch"), Pick(DOFValues, old, "depth")>>,
            depthMapMatrix, DefaultDiff, DefaultMid)
        \* if (depthLockToggle && index === 1) return;
        s2 == IF doDepth
              THEN SetGroup(s1, motorChannelGroups.depth, depthVals,
                            IF st.depthLockToggle THEN {2} ELSE {}, faults, 2)
              ELSE s1
        manipVal == calcMotorValue(DOFValues["manip"], DefaultDiff, DefaultMid)
        s3 == IF Has(DOFValues, "manip")
              THEN setChannel(s2, motorChannels.manip, manipVal, faults) ELSE s2
        picamVal == calcMotorValue(DOFValues["picam"], DefaultDiff, DefaultMid)
        s4 == IF Has(DOFValues, "picam")
              THEN setChannel(s3, motorChannels.picam, picamVal, faults) ELSE s3
        levelerVal == calcMotorValue(DOFValues["leveler"], LevelerDiff, DefaultMid)
        s5 == IF Has(DOFValues, "leveler")
              THEN setChannel(s4, motorChannels.leveler, levelerVal, faults) ELSE s4
        groups == (IF doVector THEN {"vector"} ELSE {})
                  \cup (IF doDepth THEN {"depth"} ELSE {})
                  \cup ({"manip", "picam", "leveler"} \cap DOMAIN DOFValues)
        \* the depth group's map callback returns nothing: [undefined, undefined]
        motorValues == [g \in groups |->
            CASE g = "vector" -> vectorVals
              [] g = "depth" -> <<Undef, Undef>>
              [] g = "manip" -> <<manipVal>>
              [] g = "picam" -> <<picamVal>>
              [] OTHER -> <<levelerVal>>]
        s6 == sendToken(s5, responseToken(ObjBody(motorValues), data.tx))
    IN  \* DOFValues.hasOwnProperty(...): a TypeError when the token has no body
        IF data.body.k = "undefined" THEN Throw(st)
        ELSE IF s6.thrown THEN s6
        ELSE [s6 EXCEPT !.oldDOFValues = Assign(old, DOFValues)]

\* setMotor(data): "just set one motor but do all the things too"
setMotor(st, data, faults) ==
    setMotors(st, Token("", MOTORDATA, "", {}, ObjBody(data)), FALSE, faults)

\* async readPiTemp(data): answers at once in debug mode, else awaits the file read
readPiTemp(st, data) ==
    Async(IF st.debug
          THEN sendToken(st, responseToken(StrBody(<<"6 bajillion degrees">>), data.tx))
          ELSE Suspend(st, Cont("readPiTemp", data.tx, Undef, st.origin)))

\* the file read settled: (contents)/1000 is sent, or the rejection escapes
readPiTempResume(st, k, ok, value) ==
    Async(IF ok THEN sendToken(st, responseToken(NumBody(RDiv(value, R(1000))), k.tx))
          ELSE Throw(st))

\* no clearInterval before the new timer is installed
startPiTempStream(st, data) ==
    sendToken(setInterval(st, "piTemp", "readPiTemp", PITEMPDATA),
              responseToken(ObjBody(EmptyMap), data.tx))

stopPiTempStream(st, data) ==
    sendToken(clearInterval(st, st.intervals["piTemp"]),
              responseToken(ObjBody(EmptyMap), data.tx))

\* async setDepthLock(data), up to its await.  In debug mode depthSlave is {} and
\* depthSlave.getPressure() is a TypeError.
setDepthLock(st, data) ==
    LET s1 == clearInterval(st, st.intervals["depthLock"])
    IN  Async(IF ~Truthy(data.body)
              THEN [s1 EXCEPT !.depthLockToggle = FALSE]
              ELSE LET s2 == [s1 EXCEPT !.depthLockToggle = TRUE]
                   IN  IF st.debug THEN Throw(s2)
                       ELSE Suspend(s2, Cont("setDepthLock", data.tx, Undef, st.origin)))

\* mutant: the reading is not stored as the target
setDepthLockResumeNoTarget(st, k, ok, value) ==
    Async(IF ~ok THEN Throw(st)
          ELSE sendToken(setInterval(st, "depthLock", "depthLoop", ""),
                         responseToken(ObjBody(EmptyMap), k.tx)))

\* setDepthLock after its await: the reading becomes the target, the correction
\* timer is installed and the command acknowledged
setDepthLockResume(st, k, ok, value) ==
    Async(IF ~ok THEN Throw(st)
          ELSE sendToken(setInterval([st EXCEPT !.targetPressure = value],
                                     "depthLock", "depthLoop", ""),
                         responseToken(ObjBody(EmptyMap), k.tx)))

\* async depthLoop(), up to its await: targetPressure is read before the await
depthLoop(st) ==
    Async(IF st.debug THEN Throw(st)
          ELSE Suspend(st, Cont("depthLoop", MOTORDATA, st.targetPressure, st.origin)))

\* mutant: the correction is not clamped
DofValueUnclamped(error) == RDiv(error, R(PressureScale))

\* Math.min(Math.max(-1, error / 30), 1)
DofValue(error) == RMin(RMax(R(-1), RDiv(error, R(PressureScale))), R(1))

\* the depth-axis value a correction cycle commands
DepthCommand(target, current) == RNeg(DofValue(RSub(target, current)))

\* depthLoop after its await
depthLoopResume(st, k, ok, value, faults) ==
    Async(IF ~ok THEN Throw(st)
          ELSE setMotor(st, [d \in {"depth"} |-> DepthCommand(k.tp, value)], faults))

LEDChannels == <<5, 6>>

RECURSIVE SetLEDs(_, _, _, _)
\* LEDChannels.map(channel => pca.setDutyCycle(channel, dutyCycle)): not caught
SetLEDs(st, dutyCycle, faults, n) ==
    IF n = 0 THEN st
    ELSE LET s1 == SetLEDs(st, dutyCycle, faults, n - 1)
         IN  IF s1.thrown THEN s1
             ELSE IF LEDChannels[n] \in faults
             THEN Throw([s1 EXCEPT !.hw = Append(@,
                    [ch |-> LEDChannels[n], val |-> dutyCycle, ok |-> FALSE])])
             ELSE [s1 EXCEPT !.hw = Append(@,
                    [ch |-> LEDChannels[n], val |-> dutyCycle, ok |-> TRUE])]

setLEDBrightness(st, data, faults) ==
    IF st.debug THEN st
    ELSE LET dutyCycle == RDiv(RAdd(data.body.n, R(1)), R(2))
             s1 == SetLEDs(st, dutyCycle, faults, 2)
         IN  IF s1.thrown THEN s1
             ELSE sendToken(s1, responseToken(ObjBody(EmptyMap), data.tx))

\* data.body.zKp: undefined when the body has no such key
Prop(body, key) == IF body.k = "obj" /\ key \in DOMAIN body.obj THEN body.obj[key] ELSE Undef

\* the gains are tested as keys of the token itself (data.hasOwnProperty) and
\* read from its body
tunePIDLoop(st, data) ==
    LET g == [key \in GainKeys |->
                 IF key \in data.top THEN Prop(data.body, key) ELSE st.gains[key]]
    IN  IF data.top # {} /\ data.body.k = "undefined" THEN Throw(st)
        ELSE sendToken([st EXCEPT !.gains = g], responseToken(ObjBody(g), data.tx))

\* specialEmitter.on('test', ...)
specialTest(st, data) ==
    sendToken(st, responseToken(StrBody(<<"WOOOOO">>), data.tx))

\* specialEmitter.on('electromag', async ...): on() is awaited, off() is not.
\* In debug mode electromagSlave is {} and either call is a TypeError.
specialElectromag(st, data) ==
    Async(IF st.debug THEN Throw(st)
          ELSE IF Truthy(data.body)
          THEN Suspend(st, Cont("electromagOn", data.tx, Undef, st.origin))
          ELSE sendToken(Suspend(st, Cont("electromagOff", data.tx, Undef, st.origin)),
                         responseToken(ObjBody(EmptyMap), data.tx)))

\* the electromagnet call settled: acknowledged, or rejected at the 1 s timeout
electromagResume(st, k, ok) ==
    Async(IF ~ok THEN Throw(st)
          ELSE IF k.kind = "electromagOn"
          THEN sendToken(st, responseToken(ObjBody(EmptyMap), k.tx))
          ELSE st)

(***************************************************************************)
(* Dispatch: tokenTypeEmitter and specialEmitter                           *)
(***************************************************************************)
\* tokenTypes of nugget-comms
TokenTypes ==
    {"ECHO", "READMAG", "STARTMAGSTREAM", "STOPMAGSTREAM", "CONTROLLERDATA",
     "READPITEMP", "STARTPITEMPSTREAM", "STOPPITEMPSTREAM", "SETDEPTHLOCK",
     "LEDTEST", "PIDTUNE", "SPECIALTOKEN"}
SpecialTypes == {"test", "electromag"}

\* the value a text that does not parse is replaced by: the string 'tokenerror'
TokenError == Token("undefined", "", "", {}, NoBody)

\* specialEmitter.emit(data.headers.specialType, data)
EmitSpecial(st, data) ==
    CASE data.special = "test" -> specialTest(Invoke(st, "test", data), data)
      [] data.special = "electromag" ->
            specialElectromag(Invoke(st, "electromag", data), data)
      \* EventEmitter: emitting 'error' without a listener throws
      [] data.special = "error" -> Throw(st)
      [] OTHER -> st

\* tokenTypeEmitter.emit(datum.type, datum): the listener registered for the
\* type runs synchronously; a type without listener is dropped
Emit(st, data, faults) ==
    LET s0 == [st EXCEPT !.origin = [periodic |-> FALSE, cause |-> data.tx]]
        s1 == IF data.type \in TokenTypes \ {"SPECIALTOKEN"}
              THEN Invoke(s0, data.type, data) ELSE s0
    IN  CASE data.type = "ECHO" -> echo(s1, data)
          [] data.type = "READMAG" -> readMag(s1, data)
          [] data.type = "STARTMAGSTREAM" -> startMagStream(s1, data)
          [] data.type = "STOPMAGSTREAM" -> stopMagStream(s1, data)
          [] data.type = "CONTROLLERDATA" -> setMotors(s1, data, TRUE, faults)
          [] data.type = "READPITEMP" -> readPiTemp(s1, data)
          [] data.type = "STARTPITEMPSTREAM" -> startPiTempStream(s1, data)
          [] data.type = "STOPPITEMPSTREAM" -> stopPiTempStream(s1, data)
          [] data.type = "SETDEPTHLOCK" -> setDepthLock(s1, data)
          [] data.type = "LEDTEST" -> setLEDBrightness(s1, data, faults)
          [] data.type = "PIDTUNE" -> tunePIDLoop(s1, data)
          [] data.type = "SPECIALTOKEN" -> EmitSpecial(s1, data)
          [] data.type = "error" -> Throw(s0)
          [] OTHER -> s0

(***************************************************************************)
(* The wire.  A chunk is a sequence of characters; a character is <<"c", x>>. *)
(* The parts of a token text that hold no brace, bar or quote are single   *)
(* lexemes <<tag, value>>.                                                 *)
(***************************************************************************)
C(x) == <<"c", x>>

\* the member "body": <value> of a token text; absent when the body is undefined
BodyText(body) ==
    CASE body.k = "str" ->
            << <<"key", "body">>, C("\"")>> \o [i \in 1..Len(body.s) |-> C(body.s[i])]
                \o <<C("\"")>>
      [] body.k = "bool" -> << <<"key", "body">>, <<"bool", body.b>> >>
      [] body.k = "num" -> << <<"key", "body">>, <<"num", body.n>> >>
      [] body.k = "obj" -> << <<"key", "body">>, C("{"), <<"obj", body.obj>>, C("}")>>
      [] OTHER -> <<>>

\* the text the surface station sends for a token:
\* {"type":..,"headers":{"transactionID":..,"specialType":..},"body":..,<gains>}
Stringify(t) ==
    <<C("{"), <<"type", t.type>>, C("{"), <<"tx", t.tx>>, <<"special", t.special>>, C("}")>>
    \o BodyText(t.body) \o << <<"top", t.top>>, C("}")>>

\* .replace(/}{/g, '}|{')
RECURSIVE Separate(_)
Separate(text) ==
    IF Len(text) < 2 THEN text
    ELSE IF text[1] = C("}") /\ text[2] = C("{")
         THEN <<C("}"), C("|")>> \o Separate(Tail(text))
         ELSE <<text[1]>> \o Separate(Tail(text))

\* .split('|')
RECURSIVE Split(_, _)
Split(text, cur) ==
    IF text = <<>> THEN <<cur>>
    ELSE IF Head(text) = C("|") THEN <<cur>> \o Split(Tail(text), <<>>)
         ELSE Split(Tail(text), Append(cur, Head(text)))

Texts(chunk) == Split(Separate(chunk), <<>>)

\* the characters between the quotes of a JSON string
IsStringText(b) ==
    /\ Len(b) >= 2
    /\ b[1] = C("\"")
    /\ b[Len(b)] = C("\"")
    /\ \A i \in 2..(Len(b) - 1) : b[i][1] = "c" /\ b[i][2] # "\""

IsValueText(b) ==
    \/ Len(b) = 1 /\ b[1][1] \in {"bool", "num"}
    \/ Len(b) = 3 /\ b[1] = C("{") /\ b[2][1] = "obj" /\ b[3] = C("}")
    \/ IsStringText(b)

IsBodyText(b) ==
    \/ b = <<>>
    \/ Len(b) >= 2 /\ b[1] = <<"key", "body">> /\ IsValueText(Tail(b))

\* whether JSON.parse accepts the text (as a token object)
WellFormed(text) ==
    /\ Len(text) >= 8
    /\ \A i \in 1..Len(text) : Len(text[i]) = 2
    /\ text[1] = C("{")
    /\ text[2][1] = "type"
    /\ text[3] = C("{")
    /\ text[4][1] = "tx"
    /\ text[5][1] = "special"
    /\ text[6] = C("}")
    /\ text[Len(text) - 1][1] = "top"
    /\ text[Len(text)] = C("}")
    /\ IsBodyText(SubSeq(text, 7, Len(text) - 2))

ParseValue(b) ==
    CASE Len(b) = 1 /\ b[1][1] = "bool" -> BoolBody(b[1][2])
      [] Len(b) = 1 /\ b[1][1] = "num" -> NumBody(b[1][2])
      [] Len(b) = 3 /\ b[2][1] = "obj" -> ObjBody(b[2][2])
      [] OTHER -> StrBody([i \in 1..(Len(b) - 2) |-> b[i + 1][2]])

ParseBody(b) == IF b = <<>> THEN NoBody ELSE ParseValue(Tail(b))

\* mutant: a text that does not parse is emitted as an 'error' event, which has
\* no listener
ParseAbort(text) ==
    IF WellFormed(text)
    THEN Token(text[2][2], text[4][2], text[5][2], text[Len(text) - 1][2],
               ParseBody(SubSeq(text, 7, Len(text) - 2)))
    ELSE Token("error", "", "", {}, NoBody)

\* try { datum = JSON.parse(datum) } catch (error) { datum = 'tokenerror' }
Parse(text) ==
    IF WellFormed(text)
    THEN Token(text[2][2], text[4][2], text[5][2], text[Len(text) - 1][2],
               ParseBody(SubSeq(text, 7, Len(text) - 2)))
    ELSE TokenError

RECURSIVE EmitAll(_, _, _, _)
\* .forEach(datum => { ...; tokenTypeEmitter.emit(datum.type, datum) }): an
\* exception of a synchronous listener ends the loop
EmitAll(st, texts, faults, n) ==
    IF n = 0 THEN st
    ELSE LET s1 == EmitAll(st, texts, faults, n - 1)
         IN  IF s1.thrown THEN s1 ELSE Emit(s1, Parse(texts[n]), faults)

(***************************************************************************)
(* Steps of the event loop                                                 *)
(***************************************************************************)
NoOrigin == [periodic |-> FALSE, cause |-> ""]
NoCont == Cont("none", "", Undef, NoOrigin)

Act(name, conn, chunk, h, k, ok, value) ==
    [name |-> name, conn |-> conn, chunk |-> chunk, h |-> h, k |-> k,
     ok |-> ok, value |-> value]

\* The end of a step.  An uncaught exception ends the process; an unhandled
\* rejection ends it or only warns, depending on the Node.js the robot runs.
Finish(st, a) ==
    \E end \in {st} :
        \E die \in (IF end.err = "reject" THEN BOOLEAN ELSE {FALSE}) :
            Install([end EXCEPT !.crashed = (end.err = "throw") \/ die], a)

\* server.on('connection', onServerConnection)
onServerConnection(c) ==
    /\ ~crashed
    /\ c \notin conns
    /\ Finish([Cur EXCEPT !.client = c, !.conns = @ \cup {c}],
              Act("connection", c, <<>>, 0, NoCont, TRUE, Undef))

\* client.on('data', onClientData)
onClientData(c, chunk, faults) ==
    /\ ~crashed
    /\ c \in conns
    /\ LET texts == Texts(chunk)
       IN  Finish(Sync(EmitAll(Cur, texts, faults, Len(texts))),
                  Act("data", c, chunk, 0, NoCont, TRUE, Undef))

RECURSIVE ClearAll(_, _)
\* Object.values(intervals).map(interval => clearInterval(interval))
ClearAll(st, names) ==
    IF names = {} THEN st
    ELSE LET n == CHOOSE x \in names : TRUE
         IN  ClearAll(clearInterval(st, st.intervals[n]), names \ {n})

\* client.on('close', onClientDisconnect)
onClientDisconnect(c) ==
    /\ ~crashed
    /\ c \in conns
    /\ Finish([ClearAll(Cur, StreamNames) EXCEPT !.client = 0, !.conns = @ \ {c}],
              Act("close", c, <<>>, 0, NoCont, TRUE, Undef))

\* a live interval timer fires and calls its callback
Tick(h, faults) ==
    /\ ~crashed
    /\ timers[h].cb # "free"
    /\ LET s0 == [Cur EXCEPT !.origin = [periodic |-> TRUE, cause |-> ""]]
           arg == FakeToken(timers[h].tx)
           s1 == CASE timers[h].cb = "readMag" ->
                        Sync(readMag(Invoke(s0, "readMag", arg), arg))
                   [] timers[h].cb = "readPiTemp" ->
                        readPiTemp(Invoke(s0, "readPiTemp", arg), arg)
                   [] OTHER -> depthLoop(Invoke(s0, "depthLoop", arg))
       IN  Finish(s1, Act("tick", 0, <<>>, h, NoCont, TRUE, Undef))

Remove(seq, i) == SubSeq(seq, 1, i - 1) \o SubSeq(seq, i + 1, Len(seq))

\* the operation a suspended handler awaits settles (ok: resolved with value;
\* otherwise rejected) and the handler runs on
Resume(i, ok, value, faults) ==
    /\ ~crashed
    /\ i \in 1..Len(pending)
    /\ LET k == pending[i]
           s0 == [Cur EXCEPT !.pending = Remove(@, i), !.origin = k.origin]
           s1 == CASE k.kind = "readPiTemp" -> readPiTempResume(s0, k, ok, value)
                   [] k.kind = "setDepthLock" -> setDepthLockResume(s0, k, ok, value)
                   [] k.kind = "depthLoop" -> depthLoopResume(s0, k, ok, value, faults)
                   [] OTHER -> electromagResume(s0, k, ok)
       IN  Finish(s1, Act("resume", 0, <<>>, 0, k, ok, value))

\* The state once the PCA driver's initialisation callback has run (c = 0), and
\* the state once the first connection c has then been accepted.
InitWith(c) ==
    /\ debug \in BOOLEAN
    /\ crashed = FALSE
    /\ client = c
    /\ conns = IF c = 0 THEN {} ELSE {c}
    /\ intervals = [n \in StreamNames |-> 0]
    /\ timers = [h \in Handles |-> FreeTimer]
    /\ depthLockToggle = FALSE
    /\ targetPressure = Undef
    /\ oldDOFValues = [k \in DOFKeys |-> R(0)]
    /\ gains = [zKp |-> R(1), zKi |-> R(1), zKd |-> R(0)]
    /\ pwm = [ch \in Channels |-> R(DefaultMid)]
    /\ pending = <<>>
    /\ act = Act(IF c = 0 THEN "init" ELSE "connection", c, <<>>, 0, NoCont, TRUE, Undef)
    /\ handled = <<>>
    /\ sent = <<>>
    /\ hw = <<>>
    /\ err = "none"

(***************************************************************************)
(* The mixing specification: calcMotorValues on bounded inputs             *)
(***************************************************************************)
Coefs == {-1, 0, 1}
MixValues == {Rat(n, ValDen) : n \in (-ValDen)..ValDen}

\* the two matrices of the program, the 1x1 matrix of calcMotorValue, and every
\* matrix of at most MaxRows rows of two coefficients
MixMatrices ==
    {vectorMapMatrix, depthMapMatrix, << <<1>> >>}
    \cup UNION {[1..r -> [1..2 -> Coefs]] : r \in 1..MaxRows}

MixRanges == {<<DefaultDiff, DefaultMid>>, <<LevelerDiff, DefaultMid>>}

MixInit ==
    /\ InitWith(0)
    /\ ~debug
    /\ \E m \in MixMatrices :
         \E v \in [1..Len(m[1]) -> MixValues] :
            \E dm \in MixRanges :
                mixIn = [data |-> v, matrix |-> m, diff |-> dm[1], mid |-> dm[2]]
    /\ mixOut = <<>>

MixApply ==
    /\ mixOut = <<>>
    /\ mixOut' = calcMotorValues(mixIn.data, mixIn.matrix, mixIn.diff, mixIn.mid)
    /\ UNCHANGED <<mixIn, progVars, stepVars>>

MixNext == MixApply

MixSpec == MixInit /\ [][MixNext]_vars

\* the raw channel sum r_i = sum_j M[i][j] * v[j], summed from the last column
RECURSIVE Dot(_, _)
Dot(row, v) ==
    IF row = <<>> THEN R(0)
    ELSE RAdd(RMul(R(Head(row)), Head(v)), Dot(Tail(row), Tail(v)))

MixRaw(i) == Dot(mixIn.matrix[i], mixIn.data)
MixRows == 1..Len(mixIn.matrix)
MixSaturated == \E i \in MixRows : RLt(R(1), RAbs(MixRaw(i)))
\* scale = max(1, max_i |r_i|)
MixScale ==
    CHOOSE s \in {R(1)} \cup {RAbs(MixRaw(i)) : i \in MixRows} :
        \A t \in {R(1)} \cup {RAbs(MixRaw(i)) : i \in MixRows} : RLe(t, s)

\* C1: every pulse width calcMotorValues returns lies in [mid - diff, mid + diff],
\* also when raw channel sums exceed magnitude 1.
C1_PulseWidthInRange ==
    mixOut # <<>> =>
        \A i \in 1..Len(mixOut) :
            /\ RLe(R(mixIn.mid - mixIn.diff), mixOut[i])
            /\ RLe(mixOut[i], R(mixIn.mid + mixIn.diff))

\* C1 witness: a result for a vector whose raw sums exceed magnitude 1
C1_Witness ==
    /\ mixOut # <<>>
    /\ MixSaturated
    /\ \E i \in 1..Len(mixOut) : mixOut[i] = R(mixIn.mid - mixIn.diff)

TxIds == {"abc", "xyz"}
NoTop == {}
NoFaults == {}
MixIdle ==
    /\ mixIn = [data |-> <<>>, matrix |-> <<>>, diff |-> DefaultDiff, mid |-> DefaultMid]
    /\ mixOut = <<>>

\* the token of the last step, when the step handled a chunk of one token text
LastToken == Parse(act.chunk)
OneToken(type) ==
    /\ act.name = "data"
    /\ WellFormed(act.chunk)
    /\ LastToken.type = type

(***************************************************************************)
(* The motor specification: controller-DOF updates on the stored session   *)
(***************************************************************************)
ThrustKeys == {"FB", "turn", "strafe"}
ThrustValues == {R(0), R(1)}
TrimKeys == {"pitch", "depth"}
TrimValues == {R(-1), R(0), R(1)}

PartialMaps(keys, values) ==
    UNION {[d -> values] : d \in (SUBSET keys) \ {{}}}

MotorBodies == PartialMaps(ThrustKeys, ThrustValues) \cup PartialMaps(TrimKeys, TrimValues)

MotorInit == InitWith(1) /\ ~debug /\ MixIdle

MotorData ==
    \E body \in MotorBodies :
        /\ onClientData(1, Stringify(Token("CONTROLLERDATA", "abc", "", NoTop, ObjBody(body))),
                        NoFaults)
        /\ UNCHANGED mixVars

MotorNext == MotorData

MotorSpec == MotorInit /\ [][MotorNext]_vars

Unit(axis) == [k \in ThrustKeys |-> IF k = axis THEN R(1) ELSE R(0)]
Retained(keys) == [k \in keys |-> oldDOFValues[k]]
AxisColumn == [FB |-> 1, turn |-> 2, strafe |-> 3]
VectorPwm == [i \in 1..4 |-> pwm[motorChannelGroups.vector[i]]]

\* C3: a controller-DOF update carrying a thrust axis whose effective thrust
\* vector is that axis at 1 and the other two at 0 drives LF, RF, LB, RB to
\* 1550 + M[i][axis] * 400 and returns the same values in the response body:
\* forward-only gives 1950 on all four, turn-only 1950, 1150, 1950, 1150.
C3_UnitThrust ==
    \A axis \in ThrustKeys :
        (/\ OneToken("CONTROLLERDATA")
         /\ DOMAIN LastToken.body.obj \cap ThrustKeys # {}
         /\ Retained(ThrustKeys) = Unit(axis))
        => LET want == [i \in 1..4 |->
                          R(DefaultMid + vectorMapMatrix[i][AxisColumn[axis]] * DefaultDiff)]
           IN  /\ axis = "FB" => want = <<R(1950), R(1950), R(1950), R(1950)>>
               /\ axis = "turn" => want = <<R(1950), R(1150), R(1950), R(1150)>>
               /\ ~debug => VectorPwm = want
               /\ Len(sent) = 1
               /\ sent[1].transactionID = LastToken.tx
               /\ sent[1].body.obj["vector"] = want

\* C3 witness: the turn-only update {turn: 1} applied on the hardware
C3_Witness ==
    /\ OneToken("CONTROLLERDATA")
    /\ DOMAIN LastToken.body.obj = {"turn"}
    /\ Retained(ThrustKeys) = Unit("turn")
    /\ ~debug
    /\ VectorPwm = <<R(1950), R(1150), R(1950), R(1150)>>

\* C4: an update leaves the retained value of every key it omits unchanged and
\* stores the value of every key it carries, and the mix of a group it triggers
\* is computed from the carried values and, for the omitted keys of the group,
\* from the retained (most recently supplied, initially 0) values.
C4_PartialUpdate ==
    [][(act'.name = "data" /\ WellFormed(act'.chunk)
            /\ Parse(act'.chunk).type = "CONTROLLERDATA")
        => LET body == Parse(act'.chunk).body.obj
               eff == [k \in DOFKeys |-> IF k \in DOMAIN body THEN body[k]
                                          ELSE oldDOFValues[k]]
           IN  /\ \A k \in DOFKeys \ DOMAIN body : oldDOFValues'[k] = oldDOFValues[k]
               /\ \A k \in DOMAIN body : oldDOFValues'[k] = body[k]
               /\ DOMAIN body \cap ThrustKeys # {} =>
                    sent'[1].body.obj["vector"] =
                        calcMotorValues(<<eff["FB"], eff["turn"], eff["strafe"]>>,
                                        vectorMapMatrix, DefaultDiff, DefaultMid)
               /\ (DOMAIN body \cap TrimKeys # {} /\ ~debug) =>
                    <<pwm'[motorChannels.F], pwm'[motorChannels.B]>> =
                        calcMotorValues(<<eff["pitch"], eff["depth"]>>,
                                        depthMapMatrix, DefaultDiff, DefaultMid)]_vars

\* C4 witness: the partial update {turn: 1} while FB = 1 and strafe = 1 are
\* retained from earlier updates
C4_Witness ==
    /\ OneToken("CONTROLLERDATA")
    /\ LastToken.body.obj = [k \in {"turn"} |-> R(1)]
    /\ oldDOFValues["FB"] = R(1)
    /\ oldDOFValues["strafe"] = R(1)
    /\ VectorPwm = <<R(1950), Rat(4250, 3), Rat(5050, 3), Rat(5050, 3)>>


(***************************************************************************)
(* The depth specification: depth lock engaged on the stored session, its  *)
(* correction cycles, and gain tuning                                      *)
(***************************************************************************)
\* pressure readings (mbar) of the depth sensor
Pressures == {R(970), R(1000), R(1015)}
GainValues == {R(1), R(2)}

DepthInit == InitWith(1) /\ ~debug /\ MixIdle

DepthLock ==
    /\ onClientData(1, Stringify(Token("SETDEPTHLOCK", "abc", "", NoTop, BoolBody(TRUE))),
                    NoFaults)
    /\ UNCHANGED mixVars

\* a PIDTUNE token carrying zKp both as a key of the token and in its body
DepthTune ==
    \E g \in GainValues :
        /\ onClientData(1, Stringify(Token("PIDTUNE", "xyz", "", {"zKp"},
                                           ObjBody([k \in {"zKp"} |-> g]))), NoFaults)
        /\ UNCHANGED mixVars

DepthTick ==
    \E h \in Handles : Tick(h, NoFaults) /\ UNCHANGED mixVars

\* a pending pressure read resolves
DepthSettle ==
    \E i \in 1..MaxPending : \E p \in Pressures :
        Resume(i, TRUE, p, NoFaults) /\ UNCHANGED mixVars

DepthNext == DepthLock \/ DepthTune \/ DepthTick \/ DepthSettle

DepthSpec == DepthInit /\ [][DepthNext]_vars

\* a correction cycle has just commanded the depth axis
CycleDone ==
    /\ act.name = "resume"
    /\ act.k.kind = "depthLoop"
    /\ err = "none"

\* C5: the depth-axis value a correction cycle commands is
\* -clamp((target - current) / 30, -1, 1), target being the value the cycle
\* captured and current the reading it awaited (target 1000, current 970: -1);
\* the gains zKp, zKi, zKd do not enter it.
C5_DepthCommand ==
    CycleDone =>
        LET scaled == RDiv(RSub(act.k.tp, act.value), R(30))
            clamped == IF RLt(scaled, R(-1)) THEN R(-1)
                       ELSE IF RLt(R(1), scaled) THEN R(1) ELSE scaled
        IN  /\ oldDOFValues["depth"] = RNeg(clamped)
            /\ (act.k.tp = R(1000) /\ act.value = R(970)) => oldDOFValues["depth"] = R(-1)
            /\ sent = <<[to |-> client, transactionID |-> MOTORDATA,
                         body |-> ObjBody(EmptyMap), periodic |-> TRUE, cause |-> ""]>>

\* C5 witness: target 1000, current 970 commands -1 after zKp was tuned to 2
C5_Witness ==
    /\ CycleDone
    /\ act.k.tp = R(1000)
    /\ act.value = R(970)
    /\ oldDOFValues["depth"] = R(-1)
    /\ gains["zKp"] = R(2)

(***************************************************************************)
(* The framing specification: chunks of several token texts on the stored  *)
(* session                                                                 *)
(***************************************************************************)
\* token texts in one chunk
MaxTexts == 4

EchoHello ==
    Stringify(Token("ECHO", "abc", "", NoTop, StrBody(<<"h", "e", "l", "l", "o">>)))
EchoObject ==
    Stringify(Token("ECHO", "xyz", "", NoTop, ObjBody([k \in {"a"} |-> R(1)])))
\* the text {a}: delimited like a token, but not JSON
Malformed == <<C("{"), C("a"), C("}")>>

Pieces == {EchoHello, EchoObject, Malformed}

RECURSIVE ChunksOf(_)
ChunksOf(n) ==
    IF n = 0 THEN {<<>>}
    ELSE {p \o c : p \in Pieces, c \in ChunksOf(n - 1)}

FrameChunks == UNION {ChunksOf(n) : n \in 1..MaxTexts}

FrameInit == InitWith(1) /\ ~debug /\ MixIdle

FrameData ==
    \E chunk \in FrameChunks :
        onClientData(1, chunk, NoFaults) /\ UNCHANGED mixVars

FrameNext == FrameData

FrameSpec == FrameInit /\ [][FrameNext]_vars

\* the well-formed texts of the chunk handled by the last step, in order
GoodTexts == SelectSeq(Texts(act.chunk), WellFormed)
BadTexts == SelectSeq(Texts(act.chunk), LAMBDA t : ~WellFormed(t))

\* C6: in a chunk of malformed and well-formed texts, exactly the well-formed
\* texts are dispatched, each to the handler of its type and in order, and
\* exactly they are answered; a malformed text invokes no handler, produces no
\* response and raises no error.
C6_MalformedIsolated ==
    act.name = "data" =>
        /\ Len(handled) = Len(GoodTexts)
        /\ \A i \in 1..Len(GoodTexts) :
              /\ handled[i].h = GoodTexts[i][2][2]
              /\ handled[i].tx = GoodTexts[i][4][2]
        /\ Len(sent) = Len(GoodTexts)
        /\ err = "none"
        /\ ~crashed

\* C6 witness: the chunk {a}<echo "hello">{a}<echo {a: 1}>: both echo tokens
\* dispatched
C6_Witness ==
    /\ act.name = "data"
    /\ act.chunk = Malformed \o EchoHello \o Malformed \o EchoObject
    /\ Len(BadTexts) = 2
    /\ handled = <<[h |-> "ECHO", tx |-> "abc"], [h |-> "ECHO", tx |-> "xyz"]>>

\* C9: every echo token with body b and transactionID t is answered by exactly
\* one response, written to the session, with transactionID t and body b.
C9_EchoResponse ==
    act.name = "data" =>
        LET echoes == SelectSeq(GoodTexts, LAMBDA t : Parse(t).type = "ECHO")
        IN  /\ Len(sent) = Len(echoes)
            /\ \A i \in 1..Len(echoes) :
                  /\ sent[i].to = client
                  /\ sent[i].transactionID = Parse(echoes[i]).tx
                  /\ sent[i].body = Parse(echoes[i]).body

\* C9 witness: the echo token with body "hello" and transactionID "abc"
C9_Witness ==
    /\ act.name = "data"
    /\ act.chunk = EchoHello
    /\ client = 1
    /\ sent = <<[to |-> 1, transactionID |-> "abc",
                 body |-> StrBody(<<"h", "e", "l", "l", "o">>),
                 periodic |-> FALSE, cause |-> "abc"]>>


(***************************************************************************)
(* The stream specification: one operator session at a time starting and   *)
(* stopping the streams and the depth lock, the timers firing, the awaited *)
(* reads resolving, the session closing and a new one being accepted       *)
(***************************************************************************)
StreamTokens ==
    {Token("STARTMAGSTREAM", "abc", "", NoTop, ObjBody([k \in {"interval"} |-> R(100)])),
     Token("STOPMAGSTREAM", "abc", "", NoTop, NoBody),
     Token("STARTPITEMPSTREAM", "abc", "", NoTop, NumBody(R(1000))),
     Token("STOPPITEMPSTREAM", "abc", "", NoTop, NoBody),
     Token("SETDEPTHLOCK", "abc", "", NoTop, BoolBody(TRUE)),
     Token("SETDEPTHLOCK", "xyz", "", NoTop, BoolBody(FALSE)),
     Token("READPITEMP", "xyz", "", NoTop, NoBody),
     Token("READMAG", "xyz", "", NoTop, NoBody)}

\* what an awaited read resolves to: the thermal zone file, the pressure sensor
Reading(kind) == IF kind = "readPiTemp" THEN R(45000) ELSE R(1000)

StreamInit == InitWith(0) /\ MixIdle

StreamConnect == onServerConnection(1) /\ UNCHANGED mixVars

StreamData ==
    \E t \in StreamTokens :
        onClientData(1, Stringify(t), NoFaults) /\ UNCHANGED mixVars

StreamClose == onClientDisconnect(1) /\ UNCHANGED mixVars

StreamTick ==
    \E h \in Handles : Tick(h, NoFaults) /\ UNCHANGED mixVars

StreamSettle ==
    \E i \in 1..Len(pending) :
        Resume(i, TRUE, Reading(pending[i].kind), NoFaults) /\ UNCHANGED mixVars

StreamNext == StreamConnect \/ StreamData \/ StreamClose \/ StreamTick \/ StreamSettle

StreamSpec == StreamInit /\ [][StreamNext]_vars

\* the callback each stream name installs
StreamCallbacks == {"readMag", "readPiTemp", "depthLoop"}
LiveTimers(cb) == {h \in Handles : timers[h].cb = cb}

\* C7 as stated: at most one live timer per stream name at any time
C7_OneTimerPerStream ==
    \A cb \in StreamCallbacks : Cardinality(LiveTimers(cb)) <= 1

\* C8 as stated: while no session is connected after a disconnect, no stream or
\* depth-lock timer is live and no response is written
C8_QuietAfterDisconnect ==
    (conns = {} /\ act.name # "init") =>
        /\ \A cb \in StreamCallbacks : LiveTimers(cb) = {}
        /\ sent = <<>>

\* the fixed telemetry identifier of each periodic task
TelemetryOf ==
    [readMag |-> MAGDATA, readPiTemp |-> PITEMPDATA, depthLoop |-> MOTORDATA]

\* C10: a response written in the step that handles a command, or in the
\* resumption of that command's handler, carries the command's transactionID;
\* a response written by a periodic task (in the timer's step or in the
\* resumption of its callback) carries the fixed telemetry identifier of the
\* task's data class, never an operator-supplied transactionID.
C10_TransactionIds ==
    \A i \in 1..Len(sent) :
        /\ act.name \in {"data", "tick", "resume"}
        /\ act.name = "data" =>
              /\ ~sent[i].periodic
              /\ sent[i].transactionID = LastToken.tx
        /\ act.name = "tick" =>
              /\ sent[i].periodic
              /\ sent[i].transactionID = TelemetryOf[timers[act.h].cb]
        /\ act.name = "resume" =>
              /\ sent[i].periodic = act.k.origin.periodic
              /\ sent[i].periodic => sent[i].transactionID = TelemetryOf[act.k.kind]
              /\ ~sent[i].periodic => sent[i].transactionID = act.k.origin.cause
        /\ sent[i].periodic <=> sent[i].transactionID \in TelemetryIDs
        /\ ~sent[i].periodic <=> sent[i].transactionID \in TxIds

\* C10 witness: the mag stream, started by the command abc, sends a reading
\* under MAGDATA
C10_Witness ==
    /\ act.name = "tick"
    /\ timers[act.h].cb = "readMag"
    /\ Len(sent) = 1
    /\ sent[1].transactionID = MAGDATA
    /\ sent[1].to = 1

\* C11 as stated: a step taken while the stored session reference is empty
\* raises no error (a response it produces is dropped)
C11_DroppedWithoutSession ==
    client = 0 => (err = "none" /\ ~crashed)

(***************************************************************************)
(* The fault specification: chunks holding tokens whose handlers fail, on  *)
(* the stored session                                                      *)
(***************************************************************************)
\* STARTMAGSTREAM without body: startMagStream raises a TypeError at
\* data.body.interval
StartNoBody == Stringify(Token("STARTMAGSTREAM", "xyz", "", NoTop, NoBody))
\* SETDEPTHLOCK true: setDepthLock awaits the pressure read, which may be
\* rejected; in debug mode depthSlave is {} and the call itself fails
LockOn == Stringify(Token("SETDEPTHLOCK", "xyz", "", NoTop, BoolBody(TRUE)))

FaultPieces == {StartNoBody, LockOn, EchoHello}

RECURSIVE FaultChunksOf(_)
FaultChunksOf(n) ==
    IF n = 0 THEN {<<>>}
    ELSE {p \o c : p \in FaultPieces, c \in FaultChunksOf(n - 1)}

FaultChunks == UNION {FaultChunksOf(n) : n \in 1..MaxTexts}

FaultInit == InitWith(1) /\ MixIdle

FaultData ==
    \E chunk \in FaultChunks :
        onClientData(1, chunk, NoFaults) /\ UNCHANGED mixVars

\* a pending pressure read resolves or is rejected
FaultSettle ==
    \E i \in 1..Len(pending) : \E ok \in BOOLEAN :
        Resume(i, ok, R(1000), NoFaults) /\ UNCHANGED mixVars

FaultNext == FaultData \/ FaultSettle

FaultSpec == FaultInit /\ [][FaultNext]_vars

\* C12 as stated: when a handler throws or rejects, no error leaves the
\* dispatcher, every token of the chunk is still dispatched, and the session
\* stays open
C12_FailureContained ==
    /\ err = "none"
    /\ ~crashed
    /\ client = 1
    /\ act.name = "data" => Len(handled) = Len(Texts(act.chunk))

(***************************************************************************)
(* The dispatch specification: tokens of registered and of unregistered    *)
(* types and special sub-types on the stored session                       *)
(***************************************************************************)
\* token types and special sub-types no listener is registered for; 'error' is
\* one of them
UnknownTypes == {"NOSUCHTYPE", "error"}
UnknownSpecials == {"nosuchspecial", "error"}

DispatchBodies == PartialMaps({"FB", "pitch"}, {R(0), R(1)})

DispatchTokens ==
    {Token(type, "abc", "", NoTop, StrBody(<<"x">>)) : type \in UnknownTypes}
    \cup {Token("SPECIALTOKEN", "abc", special, NoTop, BoolBody(TRUE)) :
             special \in UnknownSpecials \cup {"test"}}
    \cup {Token("CONTROLLERDATA", "xyz", "", NoTop, ObjBody(body)) : body \in DispatchBodies}
    \cup {Token("STARTMAGSTREAM", "xyz", "", NoTop, ObjBody([k \in {"interval"} |-> R(100)])),
          Token("STOPMAGSTREAM", "xyz", "", NoTop, NoBody),
          Token("SETDEPTHLOCK", "xyz", "", NoTop, BoolBody(FALSE))}

DispatchInit == InitWith(1) /\ MixIdle

DispatchData ==
    \E t \in DispatchTokens :
        onClientData(1, Stringify(t), NoFaults) /\ UNCHANGED mixVars

DispatchNext == DispatchData

DispatchSpec == DispatchInit /\ [][DispatchNext]_vars

\* the token has no listener: its type is not registered, or it is a special
\* token whose sub-type is not registered
Unregistered(t) ==
    \/ t.type \notin TokenTypes
    \/ t.type = "SPECIALTOKEN" /\ t.special \notin SpecialTypes

\* C13 as stated: dispatching a token without listener runs no handler, sends
\* no response, raises no error and leaves the controller state unchanged
C13_UnregisteredIsNoOp ==
    [][(act'.name = "data" /\ WellFormed(act'.chunk) /\ Unregistered(Parse(act'.chunk)))
         => /\ handled' = <<>>
            /\ sent' = <<>>
            /\ err' = "none"
            /\ UNCHANGED progVars]_vars

(***************************************************************************)
(* The lock specification: depth lock engaged and released on the stored   *)
(* session, its correction cycles                                          *)
(***************************************************************************)
LockOff ==
    /\ onClientData(1, Stringify(Token("SETDEPTHLOCK", "xyz", "", NoTop, BoolBody(FALSE))),
                    NoFaults)
    /\ UNCHANGED mixVars

LockNext == DepthLock \/ LockOff \/ DepthTick \/ DepthSettle

LockSpec == DepthInit /\ [][LockNext]_vars

\* the step handles the one-token chunk SETDEPTHLOCK with body b
LockCommand(b) ==
    /\ act'.name = "data"
    /\ WellFormed(act'.chunk)
    /\ Parse(act'.chunk).type = "SETDEPTHLOCK"
    /\ Parse(act'.chunk).body = BoolBody(b)

\* the step resumes a handler of the given kind after its pressure read
Resumes(kind) == act'.name = "resume" /\ act'.k.kind = kind

\* C14: a set-depth-lock command with truthy body starts exactly one pressure
\* read; when the read resolves its value becomes targetPressure, the
\* 'depthLock' timer is registered with depthLoop and one acknowledgement with
\* the command's transactionID is sent, in that same step and before any
\* correction cycle.  A command with falsy body cancels the 'depthLock' timer
\* and starts no read.  No step of a correction cycle changes targetPressure.
C14_DepthLockCommand ==
    [][/\ LockCommand(TRUE) =>
            /\ Len(pending') = Len(pending) + 1
            /\ SubSeq(pending', 1, Len(pending)) = pending
            /\ pending'[Len(pending')].kind = "setDepthLock"
            /\ pending'[Len(pending')].tx = Parse(act'.chunk).tx
            /\ sent' = <<>>
            /\ targetPressure' = targetPressure
       /\ LockCommand(FALSE) =>
            /\ pending' = pending
            /\ intervals["depthLock"] \in Handles =>
                  timers'[intervals["depthLock"]] = FreeTimer
            /\ targetPressure' = targetPressure
       /\ Resumes("setDepthLock") =>
            /\ targetPressure' = act'.value
            /\ intervals'["depthLock"] \in Handles
            /\ timers'[intervals'["depthLock"]].cb = "depthLoop"
            /\ timers[intervals'["depthLock"]] = FreeTimer
            /\ Len(pending') = Len(pending) - 1
            /\ handled' = <<>>
            /\ sent' = <<[to |-> client, transactionID |-> act'.k.origin.cause,
                          body |-> ObjBody(EmptyMap), periodic |-> FALSE,
                          cause |-> act'.k.origin.cause]>>
       /\ (Resumes("depthLoop") \/ act'.name = "tick") =>
            targetPressure' = targetPressure]_vars

\* C14 witness: the lock was engaged at 1000 mbar and acknowledged to abc, the
\* timer is registered and no correction cycle has run
C14_Witness ==
    /\ act.name = "resume"
    /\ act.k.kind = "setDepthLock"
    /\ targetPressure = R(1000)
    /\ depthLockToggle
    /\ intervals["depthLock"] \in Handles
    /\ timers[intervals["depthLock"]].cb = "depthLoop"
    /\ Len(sent) = 1
    /\ sent[1].transactionID = "abc"
    /\ oldDOFValues["depth"] = R(0)

\* the channels written during the last step
Written == {hw[i].ch : i \in 1..Len(hw)}
DepthGroup == {motorChannels.F, motorChannels.B}
\* the pitch/depth mix of the retained values
DepthMix ==
    calcMotorValues(<<oldDOFValues["pitch"], oldDOFValues["depth"]>>,
                    depthMapMatrix, DefaultDiff, DefaultMid)

\* C15 as stated: with the lock enabled, a correction cycle whose read
\* succeeded stores -dofValue as the retained depth value, writes the
\* pitch/depth mix of the retained values to the depth-group actuators F and B
\* and to no other channel, and sends one response tagged MOTORDATA
C15_CycleDrivesDepthGroup ==
    (CycleDone /\ depthLockToggle) =>
        /\ oldDOFValues["depth"] = DepthCommand(act.k.tp, act.value)
        /\ Written = DepthGroup
        /\ pwm[motorChannels.F] = DepthMix[1]
        /\ pwm[motorChannels.B] = DepthMix[2]
        /\ Len(sent) = 1
        /\ sent[1].transactionID = MOTORDATA

(***************************************************************************)
(* The owner specification: operator updates of pitch and depth while the  *)
(* depth lock is engaged or not, and the lock's correction cycles          *)
(***************************************************************************)
OwnerBodies == PartialMaps(TrimKeys, {R(0), R(1)})
OwnerPressures == {R(970), R(1000)}

\* an operator-sourced controller-DOF update
OwnerData ==
    \E body \in OwnerBodies :
        /\ onClientData(1, Stringify(Token("CONTROLLERDATA", "xyz", "", NoTop, ObjBody(body))),
                        NoFaults)
        /\ UNCHANGED mixVars

OwnerSettle ==
    \E i \in 1..Len(pending) : \E p \in OwnerPressures :
        Resume(i, TRUE, p, NoFaults) /\ UNCHANGED mixVars

OwnerNext == DepthLock \/ DepthTick \/ OwnerSettle \/ OwnerData

OwnerSpec == DepthInit /\ [][OwnerNext]_vars

\* the step handles a one-token operator update that carries the key, with the
\* lock enabled
LockedUpdate(key) ==
    /\ depthLockToggle
    /\ act'.name = "data"
    /\ WellFormed(act'.chunk)
    /\ Parse(act'.chunk).type = "CONTROLLERDATA"
    /\ key \in DOMAIN Parse(act'.chunk).body.obj

\* the pitch/depth mix of the step's effective pitch and the depth value
\* retained before the step
LockedMix ==
    LET body == Parse(act'.chunk).body.obj
        pitch == IF "pitch" \in DOMAIN body THEN body["pitch"] ELSE oldDOFValues["pitch"]
    IN  calcMotorValues(<<pitch, oldDOFValues["depth"]>>, depthMapMatrix,
                        DefaultDiff, DefaultMid)

DepthIndex == [ch \in DepthGroup |-> IF ch = motorChannels.F THEN 1 ELSE 2]

\* C16 as stated: with the lock enabled, no pulse width an operator update
\* writes to F or B depends on the depth value the update carries: each is the
\* mix of the pitch and the retained depth value
C16_LockOwnsDepth ==
    [][LockedUpdate("depth") =>
          \A i \in 1..Len(hw') :
              hw'[i].ch \in DepthGroup => hw'[i].val = LockedMix[DepthIndex[hw'[i].ch]]]_vars

\* C17 as stated: with the lock enabled, an operator update that carries pitch
\* writes both F and B with the mix of the new pitch and the retained depth
\* value
C17_PitchStaysOperated ==
    [][LockedUpdate("pitch") =>
          /\ {hw'[i].ch : i \in 1..Len(hw')} = DepthGroup
          /\ pwm'[motorChannels.F] = LockedMix[1]
          /\ pwm'[motorChannels.B] = LockedMix[2]]_vars

(***************************************************************************)
(* The cycle specification: the depth lock and its correction cycles when  *)
(* pressure reads may fail                                                 *)
(***************************************************************************)
\* a pending pressure read resolves or is rejected
CycleSettle ==
    \E i \in 1..Len(pending) : \E ok \in BOOLEAN : \E p \in OwnerPressures :
        Resume(i, ok, p, NoFaults) /\ UNCHANGED mixVars

CycleNext == DepthLock \/ DepthTick \/ CycleSettle

CycleSpec == DepthInit /\ [][CycleNext]_vars

\* C18 as stated: a correction cycle whose pressure read fails commands no
\* motor, sends no response and raises no unhandled error, and the 'depthLock'
\* timer stays registered
C18_FailedCycleSkipped ==
    (act.name = "resume" /\ act.k.kind = "depthLoop" /\ ~act.ok) =>
        /\ hw = <<>>
        /\ sent = <<>>
        /\ err = "none"
        /\ ~crashed
        /\ LiveTimers("depthLoop") # {}

(***************************************************************************)
(* The magnet specification: electromagnet special tokens on the stored    *)
(* session, the slave's acknowledgements and the 1 s timeouts              *)
(***************************************************************************)
MagnetTokens ==
    {Token("SPECIALTOKEN", tx, special, NoTop, BoolBody(b)) :
        tx \in TxIds, special \in SpecialTypes, b \in BOOLEAN}

MagnetData ==
    \E t \in MagnetTokens :
        onClientData(1, Stringify(t), NoFaults) /\ UNCHANGED mixVars

\* an on()/off() call settles: the slave's acknowledgement arrives (ok), or the
\* 1 s timeout rejects it
MagnetSettle ==
    \E i \in 1..Len(pending) : \E ok \in BOOLEAN :
        Resume(i, ok, Undef, NoFaults) /\ UNCHANGED mixVars

MagnetNext == MagnetData \/ MagnetSettle

MagnetSpec == FaultInit /\ [][MagnetNext]_vars

MagnetCalls == {"electromagOn", "electromagOff"}

\* C19 as stated: the electromag handler sends no response before its on() or
\* off() call is acknowledged, one response with the token's transactionID
\* when it is, and none when the call is rejected at the timeout
C19_ResponseAfterAck ==
    /\ (OneToken("SPECIALTOKEN") /\ LastToken.special = "electromag") => sent = <<>>
    /\ (act.name = "resume" /\ act.k.kind \in MagnetCalls) =>
          IF act.ok
          THEN /\ Len(sent) = 1
               /\ sent[1].transactionID = act.k.origin.cause
          ELSE sent = <<>>

(***************************************************************************)
(* The write specification: operator updates while the PWM driver rejects  *)
(* the writes to one channel                                               *)
(***************************************************************************)
VectorGroup == {motorChannelGroups.vector[i] : i \in 1..4}

\* the sets of channels whose pca.setPulseLength throws during a command
WriteFaults == {{}} \cup {{ch} : ch \in VectorGroup \cup DepthGroup}

WriteData ==
    \E body \in DispatchBodies : \E faults \in WriteFaults :
        /\ onClientData(1, Stringify(Token("CONTROLLERDATA", "abc", "", NoTop, ObjBody(body))),
                        faults)
        /\ UNCHANGED mixVars

WriteNext == WriteData

WriteSpec == DepthInit /\ [][WriteNext]_vars

VectorIndex == [ch \in VectorGroup |-> CHOOSE i \in 1..4 : motorChannelGroups.vector[i] = ch]

\* the pulse width the response of the last step reports for a channel
Reported(ch) ==
    IF ch \in VectorGroup THEN sent[1].body.obj["vector"][VectorIndex[ch]]
    ELSE sent[1].body.obj["depth"][DepthIndex[ch]]

\* the channels an update of the given keys writes, the lock being off
Commanded(keys) ==
    (IF keys \cap ThrustKeys # {} THEN VectorGroup ELSE {})
    \cup (IF keys \cap TrimKeys # {} THEN DepthGroup ELSE {})

\* C20 as stated: when the write of one channel fails during a motor command,
\* no error is raised, every channel of the command is still attempted, and
\* the response reports the pulse width computed for every attempted channel,
\* the failed one included
C20_WriteFaultContained ==
    (OneToken("CONTROLLERDATA") /\ \E i \in 1..Len(hw) : ~hw[i].ok) =>
        /\ err = "none"
        /\ Written = Commanded(DOMAIN LastToken.body.obj)
        /\ Len(sent) = 1
        /\ \A i \in 1..Len(hw) : Reported(hw[i].ch) = hw[i].val

(***************************************************************************)
(* The tune specification: PID gain tuning on the stored session           *)
(***************************************************************************)
\* the gain names a PIDTUNE token carries as keys of the token object itself:
\* none (the protocol's token of type, headers and body) or zKp
TuneTops == {{}, {"zKp"}}
TuneBodies == PartialMaps(GainKeys, GainValues)

TuneData ==
    \E tx \in TxIds : \E top \in TuneTops : \E body \in TuneBodies :
        /\ onClientData(1, Stringify(Token("PIDTUNE", tx, "", top, ObjBody(body))), NoFaults)
        /\ UNCHANGED mixVars

TuneNext == TuneData

TuneSpec == DepthInit /\ [][TuneNext]_vars

\* C21 as stated: a PIDTUNE token sets every gain its body contains to the
\* body's value, leaves the gains absent from the body unchanged, and is
\* answered by one response reporting the gains as they stand after the update
C21_GainsConfigurable ==
    [][OneToken("PIDTUNE")' =>
          /\ gains' = [key \in GainKeys |->
                          IF key \in DOMAIN LastToken'.body.obj
                          THEN LastToken'.body.obj[key] ELSE gains[key]]
          /\ Len(sent') = 1
          /\ sent'[1].transactionID = LastToken'.tx
          /\ sent'[1].body = ObjBody(gains')]_vars

\* C22 as stated: with the depth sensor present, whenever no enable handler is
\* suspended at its pressure read, the depth lock flag is true exactly when a
\* live timer runs depthLoop
C22_FlagMatchesTimer ==
    (~crashed /\ ~debug /\ \A i \in 1..Len(pending) : pending[i].kind # "setDepthLock") =>
        (depthLockToggle <=> LiveTimers("depthLoop") # {})

(***************************************************************************)
(* The single-channel specification: calcMotorValue on bounded inputs      *)
(***************************************************************************)
\* deflections up to three times full scale
SingleValues == {Rat(n, ValDen) : n \in (-3 * ValDen)..(3 * ValDen)}
\* the half-ranges the program passes (default, leveler) and two centres
SingleRanges == {DefaultDiff, LevelerDiff} \X {DefaultMid, 1500}

SingleInit ==
    /\ InitWith(0)
    /\ ~debug
    /\ \E v \in SingleValues : \E dm \in SingleRanges :
          mixIn = [data |-> <<v>>, matrix |-> << <<1>> >>, diff |-> dm[1], mid |-> dm[2]]
    /\ mixOut = <<>>

SingleApply ==
    /\ mixOut = <<>>
    /\ mixOut' = <<calcMotorValue(mixIn.data[1], mixIn.diff, mixIn.mid)>>
    /\ UNCHANGED <<mixIn, progVars, stepVars>>

SingleNext == SingleApply

SingleSpec == SingleInit /\ [][SingleNext]_vars

\* clamp(v, -1, 1)
Clamp(v) == RMax(R(-1), RMin(R(1), v))

\* C23 as stated: calcMotorValue(v, diff, mid) returns mid + clamp(v, -1, 1) * diff
\* for the diff and mid it is given (1550 +/- 500 at full deflection with diff 500)
C23_SingleChannelRange ==
    mixOut # <<>> =>
        mixOut[1] = RAdd(R(mixIn.mid), RMul(Clamp(mixIn.data[1]), R(mixIn.diff)))

\* the stop command, intervals key and timer callback of each telemetry stream
StopOf == [mag |-> "STOPMAGSTREAM", piTemp |-> "STOPPITEMPSTREAM"]
CallbackOf == [mag |-> "readMag", piTemp |-> "readPiTemp"]

\* something that will still emit the stream's telemetry: a live timer running
\* its callback, or a read its callback is awaiting
Emitting(name) ==
    \/ LiveTimers(CallbackOf[name]) # {}
    \/ \E i \in 1..Len(pending) :
          /\ pending[i].kind = CallbackOf[name]
          /\ pending[i].tx = TelemetryOf[CallbackOf[name]]

\* C24 as stated: the step that handles a stop-stream command raises no error,
\* sends one acknowledgement echoing the command's transactionID, leaves nothing
\* that emits further telemetry of the stream, and changes no timer when none
\* was registered under the stream's name
C24_StopCancelsStream ==
    [][\A name \in DOMAIN StopOf :
          OneToken(StopOf[name])' =>
              /\ err' = "none"
              /\ Len(sent') = 1
              /\ sent'[1].transactionID = LastToken'.tx
              /\ sent'[1].body = ObjBody(EmptyMap)
              /\ ~Emitting(name)'
              /\ (LiveTimers(CallbackOf[name]) = {} => timers' = timers)]_vars

\* C25 as stated: a correction cycle whose pressure read resolves when its timer
\* has been cancelled (the lock disabled or the session closed) still completes:
\* it raises no error, commands the depth axis, sends its telemetry response,
\* and leaves no timer to start a further cycle
C25_InFlightCycleCompletes ==
    [][(Resumes("depthLoop") /\ LiveTimers("depthLoop") = {}) =>
          /\ err' = "none"
          /\ ~crashed'
          /\ oldDOFValues'["depth"] = DepthCommand(act'.k.tp, act'.value)
          /\ Len(sent') = 1
          /\ sent'[1].transactionID = MOTORDATA
          /\ LiveTimers("depthLoop")' = {}]_vars

(***************************************************************************)
(* The session specification: two connections accepted and closed in any   *)
(* order, streams started and stopped over them                            *)
(***************************************************************************)
Connections == {1, 2}

SessionTokens ==
    {Token("STARTMAGSTREAM", "abc", "", NoTop, ObjBody([k \in {"interval"} |-> R(100)])),
     Token("STOPMAGSTREAM", "xyz", "", NoTop, NoBody),
     Token("STARTPITEMPSTREAM", "abc", "", NoTop, NumBody(R(1000)))}

SessionConnect == \E c \in Connections : onServerConnection(c) /\ UNCHANGED mixVars

SessionData ==
    \E c \in Connections : \E t \in SessionTokens :
        onClientData(c, Stringify(t), NoFaults) /\ UNCHANGED mixVars

SessionClose == \E c \in Connections : onClientDisconnect(c) /\ UNCHANGED mixVars

SessionNext ==
    SessionConnect \/ SessionData \/ SessionClose \/ StreamTick \/ StreamSettle

SessionSpec == StreamInit /\ [][SessionNext]_vars

\* C26 as stated: accepting a connection stores it as the session; the close of
\* a connection other than the stored, still open one changes neither the
\* stored session nor the timers; no other step changes the stored session
C26_LatestSessionKept ==
    [][/\ act'.name = "connection" => client' = act'.conn
       /\ (act'.name = "close" /\ client \in conns /\ act'.conn # client) =>
             (client' = client /\ timers' = timers)
       /\ act'.name \notin {"connection", "close"} => client' = client]_vars

(***************************************************************************)
(* The round-trip specification: chunks of echo tokens whose string bodies  *)
(* contain the characters the framing works with                           *)
(***************************************************************************)
MaxTokens == 2

RoundStrings ==
    {<<"a">>, <<"|">>, <<"}", "{">>, <<"{", "}">>, <<"}">>, <<"a", "|">>, <<"}", "{", "a">>}

RoundTokens == {Token("ECHO", "abc", "", NoTop, StrBody(s)) : s \in RoundStrings}

RoundSeqs == UNION {[1..n -> RoundTokens] : n \in 1..MaxTokens}

\* the token texts written back-to-back
RECURSIVE Concat(_)
Concat(ts) == IF ts = <<>> THEN <<>> ELSE Stringify(Head(ts)) \o Concat(Tail(ts))

RoundData ==
    \E ts \in RoundSeqs :
        onClientData(1, Concat(ts), NoFaults) /\ UNCHANGED mixVars

RoundNext == RoundData

RoundSpec == FaultInit /\ [][RoundNext]_vars

\* C27 as stated: a chunk of N well-formed tokens written back-to-back is
\* decoded into exactly those N tokens, each dispatched once and in order (each
\* echo token answered by its own body), whatever characters the bodies contain
C27_FramingRoundTrip ==
    \A ts \in RoundSeqs :
        (act.name = "data" /\ act.chunk = Concat(ts)) =>
            /\ Len(Texts(act.chunk)) = Len(ts)
            /\ \A i \in 1..Len(ts) : Parse(Texts(act.chunk)[i]) = ts[i]
            /\ handled = [i \in 1..Len(ts) |-> [tx |-> ts[i].tx, h |-> "ECHO"]]
            /\ Len(sent) = Len(ts)
            /\ \A i \in 1..Len(ts) : sent[i].body = ts[i].body

=============================================================================
